---- MODULE Spec2Model ----
(***************************************************************************)
(* F1 Manager setup optimizer: the SetupCalculator (linear bias model,     *)
(* confidence, feedback classification) and the IterativeOptimizer (the    *)
(* candidate pool narrowed by practice feedback).                          *)
(*                                                                         *)
(* Numbers.  The program computes in floating point; the model computes    *)
(* the same formulas exactly, in fixed point:                              *)
(*   - a setup parameter is an integer number of thousandths (One = 1.0);  *)
(*   - a matrix coefficient is an integer number of hundredths;            *)
(*   - a bias value is therefore in units of 1/BiasOne = 1e-5;             *)
(*   - a confidence or a score is in units of 1/PctOne of one percent.     *)
(* Every quantity the program computes from grid setups and from the       *)
(* modelled random draws is an exact integer in these units.  Rounding     *)
(* errors of IEEE doubles are not modelled.                                *)
(***************************************************************************)
EXTENDS Integers, Sequences, FiniteSets, Bags, TLC

VARIABLES
    candidates,      \* IterativeOptimizer.candidates: the pool, a sequence
    attemptHistory,  \* IterativeOptimizer.attemptHistory
    ret              \* the last operation called, its arguments and its result

vars == <<candidates, attemptHistory, ret>>

----------------------------------------------------------------------------
(* Fixed-point units *)

One == 1000
Half == One \div 2
BiasOne == One * 100
PctOne == 2 * One

Abs(x) == IF x < 0 THEN -x ELSE x
Min(a, b) == IF a <= b THEN a ELSE b
Max(a, b) == IF a >= b THEN a ELSE b

Last(s) == s[Len(s)]

RECURSIVE SumSeq(_)
SumSeq(s) == IF s = <<>> THEN 0 ELSE s[1] + SumSeq(Tail(s))

----------------------------------------------------------------------------
(* types: FeedbackType, CarBias, SetupParameters, Biasfeedback.  A          *)
(* SetupParameters, a CarBias and a Biasfeedback are 5-tuples indexed by    *)
(* their field names.                                                       *)

OPTIMAL == "optimal"
GREAT == "great"
GOOD == "good"
BAD == "bad"
FeedbackType == {OPTIMAL, GREAT, GOOD, BAD}

frontWingAngle == 1
rearWingAngle == 2
antiRollDistribution == 3
tyreCamber == 4
toeOut == 5
Params == <<frontWingAngle, rearWingAngle, antiRollDistribution, tyreCamber, toeOut>>

oversteer == 1
brakingStability == 2
cornering == 3
traction == 4
straights == 5
Metrics == <<oversteer, brakingStability, cornering, traction, straights>>

MkSetup(fw, rw, ar, tc, to) == <<fw, rw, ar, tc, to>>

MkFeedback(o, b, c, t, s) == <<o, b, c, t, s>>

----------------------------------------------------------------------------
(* SimpleMatrix.  A matrix is a sequence of rows.  An operation yields       *)
(* Matrix(data), or Thrown(message) when it throws.                         *)

Matrix(data) == [threw |-> FALSE, data |-> data]

Thrown(message) == [threw |-> TRUE, message |-> message]

rows(m) == Len(m)
columns(m) == IF Len(m) = 0 THEN 0 ELSE Len(m[1])

getRow(m, index) == m[index + 1]

sub(a, b) ==
    IF rows(a) # rows(b) \/ columns(a) # columns(b)
    THEN Thrown("Matrix dimensions must match for subtraction")
    ELSE Matrix([i \in 1..rows(a) |-> [j \in 1..columns(a) |-> a[i][j] - b[i][j]]])

mmul(a, b) ==
    IF columns(a) # rows(b)
    THEN Thrown("Invalid matrix dimensions for multiplication")
    ELSE Matrix([i \in 1..rows(a) |->
                    [j \in 1..columns(b) |->
                        SumSeq([k \in 1..columns(a) |-> a[i][k] * b[k][j]])]])

transpose(a) ==
    [j \in 1..columns(a) |-> [i \in 1..rows(a) |-> a[i][j]]]

----------------------------------------------------------------------------
(* SetupCalculator *)

\* in hundredths: 0.4 is 40, 0.15 is 15
coefficientMatrix ==
    << <<40, -40, -10, 10, 20>>,
       <<-20, 20, 15, -25, -5>>,
       <<30, 25, -15, 25, 0>>,
       <<-15, 25, 50, -10, 0>>,
       <<-10, -90, 0, 0, 0>> >>

initialBias ==
    [m \in 1..Len(Metrics) |->
        CASE m = oversteer -> (50 * BiasOne) \div 100
          [] m = brakingStability -> (45 * BiasOne) \div 100
          [] m = cornering -> (20 * BiasOne) \div 100
          [] m = traction -> (25 * BiasOne) \div 100
          [] m = straights -> (100 * BiasOne) \div 100]

tolerances ==
    [optimal |-> (7 * BiasOne) \div 1000,
     great |-> (4 * BiasOne) \div 100,
     good |-> (10 * BiasOne) \div 100]

BiasHalf == BiasOne \div 2

\* what a call yields: Return(value), or Thrown(message) when it throws
Return(value) == [threw |-> FALSE, value |-> value]

\* calculateBias multiplying by the coefficient matrix itself, not its transpose
calculateBiasNoTranspose(setup) ==
    LET setupDiff == sub(<<setup>>, << <<Half, Half, Half, Half, Half>> >>)
    IN  IF setupDiff.threw THEN setupDiff
        ELSE LET biasChanges == mmul(setupDiff.data, coefficientMatrix)
             IN  IF biasChanges.threw THEN biasChanges
                 ELSE Return([m \in 1..Len(Metrics) |->
                                initialBias[m] + getRow(biasChanges.data, 0)[m]])

\* calculateBias holding every parameter within [0, 1] first
calculateBiasClamping(setup) ==
    Return([m \in 1..Len(Metrics) |->
                initialBias[m]
                + SumSeq([p \in 1..Len(Params) |->
                            coefficientMatrix[m][p] * (Max(0, Min(One, setup[p])) - Half)])])

calculateBias(setup) ==
    LET setupArray == <<setup[frontWingAngle], setup[rearWingAngle],
                        setup[antiRollDistribution], setup[tyreCamber], setup[toeOut]>>
        setupVector == <<setupArray>>
        middleSetup == << <<Half, Half, Half, Half, Half>> >>
        setupDiff == sub(setupVector, middleSetup)
    IN  IF setupDiff.threw THEN setupDiff
        ELSE LET biasChanges == mmul(setupDiff.data, transpose(coefficientMatrix))
             IN  IF biasChanges.threw THEN biasChanges
                 ELSE LET biasArray == getRow(biasChanges.data, 0)
                      IN  Return(
                            [m \in 1..Len(Metrics) |->
                              CASE m = oversteer -> initialBias[oversteer] + biasArray[1]
                                [] m = brakingStability ->
                                       initialBias[brakingStability] + biasArray[2]
                                [] m = cornering -> initialBias[cornering] + biasArray[3]
                                [] m = traction -> initialBias[traction] + biasArray[4]
                                [] m = straights -> initialBias[straights] + biasArray[5]])

biasValuesOf(bias) ==
    <<bias[oversteer], bias[brakingStability], bias[cornering], bias[traction],
      bias[straights]>>

\* a penalty that is dropped once the distance passes the cap of 20
confidencePenaltyDropped(value) ==
    LET distance == Abs(value - BiasHalf)
    IN  IF distance > tolerances.optimal
        THEN IF distance * ((100 * PctOne) \div BiasOne) > 20 * PctOne
             THEN 0 ELSE distance * ((100 * PctOne) \div BiasOne)
        ELSE 0

\* penalty of one bias value, in confidence units
confidencePenalty(value) ==
    LET distance == Abs(value - BiasHalf)
    IN  IF distance > tolerances.optimal
        THEN Min(distance * ((100 * PctOne) \div BiasOne), 20 * PctOne)
        ELSE 0

\* calculateConfidence penalising a distance of exactly the optimal tolerance
calculateConfidenceInclusive(bias) ==
    Max(0, 100 * PctOne
           - SumSeq([i \in 1..Len(bias) |->
                        IF Abs(bias[i] - BiasHalf) >= tolerances.optimal
                        THEN Min(Abs(bias[i] - BiasHalf) * ((100 * PctOne) \div BiasOne),
                                 20 * PctOne)
                        ELSE 0]))

\* calculateConfidence without the cap of 20 on a penalty
calculateConfidenceUncapped(bias) ==
    Max(0, 100 * PctOne
           - SumSeq([i \in 1..Len(bias) |->
                        IF Abs(bias[i] - BiasHalf) > tolerances.optimal
                        THEN Abs(bias[i] - BiasHalf) * ((100 * PctOne) \div BiasOne)
                        ELSE 0]))

calculateConfidence(bias) ==
    LET biasValues == biasValuesOf(bias)
        totalConfidence ==
            100 * PctOne
            - SumSeq([i \in 1..Len(biasValues) |-> confidencePenalty(biasValues[i])])
    IN  Max(0, totalConfidence)

\* classifyFeedback with the thresholds applied to the sum of the distances
classifyFeedbackOfSum(bias) ==
    LET total == SumSeq([i \in 1..Len(bias) |-> Abs(bias[i] - BiasHalf)])
    IN  IF total <= tolerances.optimal THEN OPTIMAL
        ELSE IF total <= tolerances.great THEN GREAT
        ELSE IF total <= tolerances.good THEN GOOD
        ELSE BAD

\* avgDistance is total / Len(distances); avgDistance <= t is total <= t * Len(distances)
classifyFeedback(bias) ==
    LET distances == <<Abs(bias[oversteer] - BiasHalf),
                       Abs(bias[brakingStability] - BiasHalf),
                       Abs(bias[cornering] - BiasHalf),
                       Abs(bias[traction] - BiasHalf),
                       Abs(bias[straights] - BiasHalf)>>
        total == SumSeq(distances)
    IN  IF total <= tolerances.optimal * Len(distances) THEN OPTIMAL
        ELSE IF total <= tolerances.great * Len(distances) THEN GREAT
        ELSE IF total <= tolerances.good * Len(distances) THEN GOOD
        ELSE BAD

----------------------------------------------------------------------------
(* IterativeOptimizer: candidate evaluation *)

classifyBiasMetric(value) ==
    LET distance == Abs(value - BiasHalf)
    IN  IF distance <= tolerances.optimal THEN OPTIMAL
        ELSE IF distance <= tolerances.great THEN GREAT
        ELSE IF distance <= tolerances.good THEN GOOD
        ELSE BAD

generateFeedback(bias) ==
    [m \in 1..Len(Metrics) |->
        CASE m = oversteer -> classifyBiasMetric(bias[oversteer])
          [] m = brakingStability -> classifyBiasMetric(bias[brakingStability])
          [] m = cornering -> classifyBiasMetric(bias[cornering])
          [] m = traction -> classifyBiasMetric(bias[traction])
          [] m = straights -> classifyBiasMetric(bias[straights])]

\* 50 per unit of bias overflow, in score units
extremeBiasOf(val) ==
    IF val < 0 \/ val > BiasOne
    THEN Abs(IF val < 0 THEN val ELSE val - BiasOne) * ((50 * PctOne) \div BiasOne)
    ELSE 0

\* calculateScore without the penalty for extreme bias values
calculateScoreNoPenalty(setup, bias, confidence) ==
    LET balanceSum == SumSeq([i \in 1..Len(setup) |-> Abs(setup[i] - Half)])
    IN  Max(0, confidence
               + ((Len(setup) * Half - balanceSum) * 20 * PctOne) \div (Len(setup) * One))

calculateScore(setup, bias, confidence) ==
    LET setupValues == <<setup[frontWingAngle], setup[rearWingAngle],
                         setup[antiRollDistribution], setup[tyreCamber], setup[toeOut]>>
        \* balance = balanceSum / (5 * One)
        balanceSum == SumSeq([i \in 1..Len(setupValues) |-> Abs(setupValues[i] - Half)])
        bonus == ((Len(setupValues) * Half - balanceSum) * 20 * PctOne)
                    \div (Len(setupValues) * One)
        biasValues == biasValuesOf(bias)
        extremeBias == SumSeq([i \in 1..Len(biasValues) |-> extremeBiasOf(biasValues[i])])
    IN  Max(0, confidence + bonus - extremeBias)

\* the candidate record with the confidence stored as its score
evaluateCandidateUnscored(setup) ==
    LET bias == calculateBias(setup).value
        confidence == calculateConfidence(bias)
    IN  [setup |-> setup,
         bias |-> bias,
         confidence |-> confidence,
         feedback |-> generateFeedback(bias),
         score |-> confidence]

\* the candidate record pushed for a setup (initializeCandidates, expandCandidatesAroundBest)
evaluateCandidate(setup) ==
    LET bias == calculateBias(setup).value
        confidence == calculateConfidence(bias)
    IN  [setup |-> setup,
         bias |-> bias,
         confidence |-> confidence,
         feedback |-> generateFeedback(bias),
         score |-> calculateScore(setup, bias, confidence)]

feedbackOrder == <<BAD, GOOD, GREAT, OPTIMAL>>

\* Array.prototype.indexOf, zero-based, -1 when absent
indexOf(arr, x) ==
    IF \E i \in 1..Len(arr) : arr[i] = x
    THEN (CHOOSE i \in 1..Len(arr) : arr[i] = x /\ \A j \in 1..(i - 1) : arr[j] # x) - 1
    ELSE -1

feedbackCompatibleOf(calculated, expected) ==
    LET calcIndex == indexOf(feedbackOrder, calculated)
        expIndex == indexOf(feedbackOrder, expected)
    IN  Abs(calcIndex - expIndex) <= 1

\* feedbackCompatibleOf on the 16 pairs of levels, computed once
feedbackCompatibleTable ==
    [calculated \in FeedbackType |->
        [expected \in FeedbackType |-> feedbackCompatibleOf(calculated, expected)]]

feedbackCompatible(calculated, expected) ==
    feedbackCompatibleTable[calculated][expected]

feedbackMatches(calculated, expected) ==
    \A i \in 1..Len(Metrics) :
        feedbackCompatible(calculated[Metrics[i]], expected[Metrics[i]])

----------------------------------------------------------------------------
(* Array.prototype.sort((a, b) => b.score - a.score): a stable sort, highest *)
(* score first.  A stable sort leaves a sequence that is already in order    *)
(* as it is; any other sequence is sorted by a stable three-way partition.   *)

IsSortedByScore(s) ==
    \A i \in 1..(Len(s) - 1) : s[i].score >= s[i + 1].score

RECURSIVE StableSortByScore(_)
StableSortByScore(s) ==
    IF Len(s) <= 1 THEN s
    ELSE LET pivot == s[(Len(s) + 1) \div 2].score
         IN  StableSortByScore(SelectSeq(s, LAMBDA c : c.score > pivot))
             \o SelectSeq(s, LAMBDA c : c.score = pivot)
             \o StableSortByScore(SelectSeq(s, LAMBDA c : c.score < pivot))

\* the sort left out: the pool stays in enumeration order
sortByScoreNone(s) == s

sortByScore(s) == IF IsSortedByScore(s) THEN s ELSE StableSortByScore(s)

----------------------------------------------------------------------------
(* IterativeOptimizer.initializeCandidates *)

steps == 10
stride == 2

\* the loop order: fw outermost, to innermost, each ascending
RECURSIVE levelSeq(_)
levelSeq(l) == IF l > steps THEN <<>> ELSE <<(l * One) \div steps>> \o levelSeq(l + stride)

RECURSIVE Flatten(_)
Flatten(ss) == IF ss = <<>> THEN <<>> ELSE ss[1] \o Flatten(Tail(ss))

gridSetups ==
    LET L == levelSeq(0)
        n == Len(L)
    IN  [k \in 1..(n * n * n * n * n) |->
            LET i == k - 1
            IN  MkSetup(L[((i \div (n * n * n * n)) % n) + 1],
                        L[((i \div (n * n * n)) % n) + 1],
                        L[((i \div (n * n)) % n) + 1],
                        L[((i \div n) % n) + 1],
                        L[(i % n) + 1])]

initializeCandidates ==
    sortByScore([k \in 1..Len(gridSetups) |-> evaluateCandidate(gridSetups[k])])

----------------------------------------------------------------------------
(* Math.random(): the draws of one regeneration are read from a tape, and    *)
(* the tape is chosen freely among NumTapes tapes.  A draw is a number of    *)
(* hundredths in 0..RandOne-1, standing for a real in [0, 1).                *)

RandOne == 100
NumTapes == 4
Tapes == 0..(NumTapes - 1)

random(tape, k) ==
    CASE tape = 0 -> 0
      [] tape = 1 -> RandOne - 1
      [] tape = 2 -> RandOne \div 2
      [] OTHER -> (tape * 17 + k * (2 * tape + 7)) % RandOne

\* clamp that lets the value through
clampNone(value, min, max) == value

clamp(value, min, max) == Max(min, Min(max, value))

\* range is in setup units; draws first, first + 1, ... are consumed in order
variationOf(baseSetup, range, tape, first) ==
    \* (Math.random() - 0.5) * range
    LET jitter(d) == ((2 * random(tape, first + d) - RandOne) * range) \div (2 * RandOne)
    IN  MkSetup(clamp(baseSetup[frontWingAngle] + jitter(0), 0, One),
                clamp(baseSetup[rearWingAngle] + jitter(1), 0, One),
                clamp(baseSetup[antiRollDistribution] + jitter(2), 0, One),
                clamp(baseSetup[tyreCamber] + jitter(3), 0, One),
                clamp(baseSetup[toeOut] + jitter(4), 0, One))

generateVariations(baseSetup, range, count, tape, first) ==
    [i \in 1..count |->
        variationOf(baseSetup, range, tape, first + (i - 1) * Len(Params))]

\* expandCandidatesAroundBest appending every variation, compatible or not
expandCandidatesUnchecked(cands, feedback, tape) ==
    LET topCandidates == SubSeq(cands, 1, Min(3, Len(cands)))
        variationsOf(b) ==
            generateVariations(topCandidates[b].setup, One \div 10, 5, tape,
                               (b - 1) * 5 * Len(Params))
    IN  cands \o Flatten([b \in 1..Len(topCandidates) |->
                            [i \in 1..5 |-> evaluateCandidate(variationsOf(b)[i])]])

\* the candidates appended to the filtered pool
expandCandidatesAroundBest(cands, feedback, tape) ==
    LET topCandidates == SubSeq(cands, 1, Min(3, Len(cands)))
        count == 5
        variationsOf(b) ==
            generateVariations(topCandidates[b].setup, One \div 10, count, tape,
                               (b - 1) * count * Len(Params))
        evaluated(b) ==
            [i \in 1..count |-> evaluateCandidate(variationsOf(b)[i])]
        newCandidates ==
            Flatten([b \in 1..Len(topCandidates) |->
                SelectSeq(evaluated(b),
                          LAMBDA c : feedbackMatches(c.feedback, feedback))])
    IN  cands \o newCandidates

\* narrowCandidates without the final sort
narrowCandidatesUnsorted(feedback) ==
    LET filtered == SelectSeq(candidates, LAMBDA c : feedbackMatches(c.feedback, feedback))
    IN  IF Len(filtered) < 5
        THEN \E tape \in Tapes :
                candidates' = expandCandidatesAroundBest(filtered, feedback, tape)
        ELSE candidates' = filtered

\* narrowCandidates regenerating at 5 survivors too
narrowCandidatesAtMost5(feedback) ==
    LET filtered == SelectSeq(candidates, LAMBDA c : feedbackMatches(c.feedback, feedback))
    IN  IF Len(filtered) <= 5
        THEN \E tape \in Tapes :
                candidates' = sortByScore(expandCandidatesAroundBest(filtered, feedback, tape))
        ELSE candidates' = sortByScore(filtered)

\* narrowCandidates filtering the initial grid again once the pool is empty
narrowCandidatesRefilling(feedback) ==
    LET pool == IF Len(candidates) = 0 THEN initializeCandidates ELSE candidates
        filtered == SelectSeq(pool, LAMBDA c : feedbackMatches(c.feedback, feedback))
    IN  IF Len(filtered) < 5
        THEN \E tape \in Tapes :
                candidates' = sortByScore(expandCandidatesAroundBest(filtered, feedback, tape))
        ELSE candidates' = sortByScore(filtered)

\* the tape is drawn only when the pool is regenerated
narrowCandidates(feedback) ==
    LET filtered == SelectSeq(candidates, LAMBDA c : feedbackMatches(c.feedback, feedback))
    IN  IF Len(filtered) < 5
        THEN \E tape \in Tapes :
                candidates' = sortByScore(expandCandidatesAroundBest(filtered, feedback, tape))
        ELSE candidates' = sortByScore(filtered)

----------------------------------------------------------------------------
(* Inputs *)

\* the middle setup, the best grid setup, and a setup outside [0, 1]
SetupInputs ==
    { MkSetup(Half, Half, Half, Half, Half),
      MkSetup(One, One, One, (8 * One) \div 10, (6 * One) \div 10),
      MkSetup((12 * One) \div 10, Half, Half, Half, 0 - One \div 10) }

\* of the initial pool these keep 556, 5 and 4 candidates; none of the 4 is
\* compatible with the first feedback, so two attempts can empty the pool
FeedbackInputs ==
    { MkFeedback(GOOD, BAD, GREAT, GOOD, BAD),
      MkFeedback(OPTIMAL, GOOD, GREAT, OPTIMAL, BAD),
      MkFeedback(OPTIMAL, OPTIMAL, GREAT, OPTIMAL, OPTIMAL) }

MaxAttempts == 3

----------------------------------------------------------------------------
(* IterativeOptimizer: operations *)

Init ==
    /\ candidates = initializeCandidates
    /\ attemptHistory = <<>>
    /\ ret = [op |-> "constructor", threw |-> FALSE]

\* recordAttempt putting the record in front of the history
RecordAttemptUnshift(setup, feedback) ==
    /\ Len(attemptHistory) < MaxAttempts
    /\ attemptHistory' =
            <<[setup |-> setup, feedback |-> feedback,
               confidence |-> calculateConfidence(calculateBias(setup).value)]>>
            \o attemptHistory
    /\ narrowCandidates(feedback)
    /\ ret' = [op |-> "recordAttempt", setup |-> setup, feedback |-> feedback,
               threw |-> FALSE]

RecordAttempt(setup, feedback) ==
    /\ Len(attemptHistory) < MaxAttempts
    /\ LET bias == calculateBias(setup).value
           confidence == calculateConfidence(bias)
       IN  attemptHistory' = Append(attemptHistory,
                [setup |-> setup, feedback |-> feedback, confidence |-> confidence])
    /\ narrowCandidates(feedback)
    /\ ret' = [op |-> "recordAttempt", setup |-> setup, feedback |-> feedback,
               threw |-> FALSE]

\* reset clearing the history only
ResetKeepsPool ==
    /\ attemptHistory' = <<>>
    /\ candidates' = candidates
    /\ ret' = [op |-> "reset", threw |-> FALSE]

Reset ==
    /\ attemptHistory' = <<>>
    /\ candidates' = initializeCandidates
    /\ ret' = [op |-> "reset", threw |-> FALSE]

Next ==
    \/ \E setup \in SetupInputs, feedback \in FeedbackInputs : RecordAttempt(setup, feedback)
    \/ Reset

Spec == Init /\ [][Next]_vars

----------------------------------------------------------------------------
(* IterativeOptimizer: queries, as functions of the state *)

\* a rate is the rational num / den, den > 0, in confidence units per attempt

\* the mean taken over the number of attempts, not of differences
calculateConvergenceRateOverLength ==
    IF Len(attemptHistory) < 2 THEN [num |-> 0, den |-> 1]
    ELSE LET total == Last(attemptHistory).confidence - attemptHistory[1].confidence
         IN  IF total > 0 THEN [num |-> total, den |-> Len(attemptHistory)]
             ELSE [num |-> 0, den |-> 1]

calculateConvergenceRate ==
    IF Len(attemptHistory) < 2 THEN [num |-> 0, den |-> 1]
    ELSE LET confidences == [i \in 1..Len(attemptHistory) |-> attemptHistory[i].confidence]
             improvements == [i \in 1..(Len(confidences) - 1) |->
                                 confidences[i + 1] - confidences[i]]
             total == SumSeq(improvements)
         IN  \* Math.max(0, total / improvements.length)
             IF total > 0 THEN [num |-> total, den |-> Len(improvements)]
             ELSE [num |-> 0, den |-> 1]

getStats ==
    [totalCandidates |-> Len(candidates),
     attemptCount |-> Len(attemptHistory),
     bestConfidence |-> IF Len(candidates) > 0 THEN candidates[1].confidence ELSE 0,
     convergenceRate |-> calculateConvergenceRate]

\* Math.ceil(a / b) for b > 0
ceilDiv(a, b) == 0 - ((0 - a) \div b)

\* Math.floor in place of Math.ceil
estimateAttemptsFloor ==
    LET stats == getStats
    IN  IF stats.bestConfidence >= 99 * PctOne THEN 0
        ELSE IF stats.convergenceRate.num <= 0 THEN 5
        ELSE ((99 * PctOne - stats.bestConfidence) * stats.convergenceRate.den)
                \div stats.convergenceRate.num

estimateAttemptsToOptimal ==
    LET stats == getStats
    IN  IF stats.bestConfidence >= 99 * PctOne THEN 0
        ELSE IF stats.convergenceRate.num <= 0 THEN 5
        ELSE LET remaining == 99 * PctOne - stats.bestConfidence
             IN  ceilDiv(remaining * stats.convergenceRate.den, stats.convergenceRate.num)

\* Array.prototype.slice(start, end) on a sequence, zero-based, end exclusive
slice(arr, start, end) ==
    LET len == Len(arr)
        from == IF start < 0 THEN Max(len + start, 0) ELSE Min(start, len)
        to == IF end < 0 THEN Max(len + end, 0) ELSE Min(end, len)
    IN  SubSeq(arr, from + 1, to)

\* getBestRecommendations ignoring its count
getBestRecommendationsAll(count) ==
    [i \in 1..Len(candidates) |-> candidates[i].setup]

getBestRecommendations(count) ==
    LET top == slice(candidates, 0, count)
    IN  [i \in 1..Len(top) |-> top[i].setup]

\* isOptimal answering for an empty pool as for a full one
isOptimalAnyPool ==
    Len(candidates) = 0 \/ candidates[1].confidence >= 99 * PctOne

isOptimal ==
    IF Len(candidates) = 0 THEN FALSE
    ELSE LET bestConfidence == candidates[1].confidence
         IN  bestConfidence >= 99 * PctOne

----------------------------------------------------------------------------
(* SetupCalculator alone.  A caller holds a setup, inside or outside the    *)
(* unit range, and passes it to calculateBias.                              *)

CalcLevels == {0 - One \div 5, 0, Half, One, (13 * One) \div 10}

CalcSetupInputs == [1..Len(Params) -> CalcLevels]

InitCalc ==
    /\ candidates = <<>>
    /\ attemptHistory = <<>>
    /\ ret \in {[op |-> "caller", setup |-> setup, threw |-> FALSE] :
                    setup \in CalcSetupInputs}

CalculateBias ==
    /\ ret.op = "caller"
    /\ ret' = [op |-> "calculateBias", setup |-> ret.setup,
               result |-> calculateBias(ret.setup)]
    /\ UNCHANGED <<candidates, attemptHistory>>

NextCalc == CalculateBias

SpecCalc == InitCalc /\ [][NextCalc]_vars

----------------------------------------------------------------------------
(* A practice session as demonstrateOptimization runs it: the driver holds  *)
(* a current setup, reports the feedback the car gives for it, records the *)
(* attempt and adopts the first recommendation, until isOptimal or the     *)
(* attempts run out.                                                       *)

generateRealisticFeedback(biasValue) ==
    LET distance == Abs(biasValue - BiasHalf)
    IN  IF distance <= BiasOne \div 20 THEN OPTIMAL
        ELSE IF distance <= BiasOne \div 10 THEN GREAT
        ELSE IF distance <= BiasOne \div 5 THEN GOOD
        ELSE BAD

simulatedFeedback(currentSetup) ==
    LET bias == calculateBias(currentSetup).value
    IN  MkFeedback(generateRealisticFeedback(bias[oversteer]),
                   generateRealisticFeedback(bias[brakingStability]),
                   generateRealisticFeedback(bias[cornering]),
                   generateRealisticFeedback(bias[traction]),
                   generateRealisticFeedback(bias[straights]))

\* the setup demonstrateOptimization starts from, the middle setup, and the 32
\* setups with every parameter at one of its two ends
SessionStarts ==
    {MkSetup((3 * One) \div 10, (7 * One) \div 10, (4 * One) \div 10, (6 * One) \div 10, Half),
     MkSetup(Half, Half, Half, Half, Half)}
    \cup [1..Len(Params) -> {0, One}]

MaxSessionAttempts == 5

InitSession ==
    /\ candidates = initializeCandidates
    /\ attemptHistory = <<>>
    /\ ret \in {[op |-> "demonstrateOptimization", setup |-> currentSetup,
                 threw |-> FALSE, done |-> FALSE] : currentSetup \in SessionStarts}

PracticeAttempt ==
    /\ ret.op = "demonstrateOptimization"
    /\ ~ret.done
    /\ Len(attemptHistory) < MaxSessionAttempts
    /\ LET currentSetup == ret.setup
           feedback == simulatedFeedback(currentSetup)
       IN  /\ attemptHistory' = Append(attemptHistory,
                    [setup |-> currentSetup, feedback |-> feedback,
                     confidence |-> calculateConfidence(calculateBias(currentSetup).value)])
           /\ narrowCandidates(feedback)
           /\ LET recommendations == slice(candidates', 0, 1)
              IN  ret' = [op |-> "demonstrateOptimization",
                          setup |-> IF Len(recommendations) > 0
                                    THEN recommendations[1].setup ELSE currentSetup,
                          threw |-> FALSE,
                          done |-> Len(recommendations) > 0 /\ isOptimal']

NextSession == PracticeAttempt

SpecSession == InitSession /\ [][NextSession]_vars

----------------------------------------------------------------------------
(* The two compatibility checks on a pair of levels, the optimizer's        *)
(* feedbackCompatible and the calculator's feedbackMatches.  A caller holds *)
(* a pair of levels and applies each check to the pair and to the swapped   *)
(* pair, in any order; a field of ret holds the result of a call made.      *)

\* SetupCalculator.feedbackMatches demanding equal levels
calculatorFeedbackMatchesExact(calculated, expected) ==
    indexOf(feedbackOrder, calculated) = indexOf(feedbackOrder, expected)

\* SetupCalculator.feedbackMatches
calculatorFeedbackMatches(calculated, expected) ==
    LET order == <<BAD, GOOD, GREAT, OPTIMAL>>
        calcIndex == indexOf(order, calculated)
        expIndex == indexOf(order, expected)
    IN  Abs(calcIndex - expIndex) <= 1

InitCompat ==
    /\ candidates = <<>>
    /\ attemptHistory = <<>>
    /\ ret \in {[op |-> "caller", calculated |-> x, expected |-> y, threw |-> FALSE,
                 optimizer |-> {}, optimizerSwapped |-> {},
                 calculator |-> {}, calculatorSwapped |-> {}] : x, y \in FeedbackType}

CallFeedbackCompatible ==
    /\ ret.optimizer = {}
    /\ ret' = [ret EXCEPT !.op = "feedbackCompatible",
                          !.optimizer = {feedbackCompatible(ret.calculated, ret.expected)}]
    /\ UNCHANGED <<candidates, attemptHistory>>

CallFeedbackCompatibleSwapped ==
    /\ ret.optimizerSwapped = {}
    /\ ret' = [ret EXCEPT !.op = "feedbackCompatible",
                          !.optimizerSwapped = {feedbackCompatible(ret.expected, ret.calculated)}]
    /\ UNCHANGED <<candidates, attemptHistory>>

CallFeedbackMatches ==
    /\ ret.calculator = {}
    /\ ret' = [ret EXCEPT !.op = "feedbackMatches",
                          !.calculator = {calculatorFeedbackMatches(ret.calculated, ret.expected)}]
    /\ UNCHANGED <<candidates, attemptHistory>>

CallFeedbackMatchesSwapped ==
    /\ ret.calculatorSwapped = {}
    /\ ret' = [ret EXCEPT !.op = "feedbackMatches",
                          !.calculatorSwapped = {calculatorFeedbackMatches(ret.expected, ret.calculated)}]
    /\ UNCHANGED <<candidates, attemptHistory>>

NextCompat ==
    \/ CallFeedbackCompatible
    \/ CallFeedbackCompatibleSwapped
    \/ CallFeedbackMatches
    \/ CallFeedbackMatchesSwapped

SpecCompat == InitCompat /\ [][NextCompat]_vars

----------------------------------------------------------------------------
(* SetupCalculator on bias vectors.  A caller holds a bias vector and       *)
(* passes it to calculateConfidence or to classifyFeedback.  The values of  *)
(* a component: 0.5, the two ends of the optimal tolerance 0.5 +- 0.007,    *)
(* the next value past it, the value at the cap 0.5 - 0.2, and values past  *)
(* the cap, inside and outside [0, 1].                                      *)

BiasLevels ==
    {BiasHalf, BiasHalf + tolerances.optimal, BiasHalf + tolerances.optimal + 1,
     BiasHalf - tolerances.optimal, BiasHalf - BiasOne \div 5, BiasOne, 0 - BiasOne \div 20}

BiasInputs == [1..Len(Metrics) -> BiasLevels]

InitBias ==
    /\ candidates = <<>>
    /\ attemptHistory = <<>>
    /\ ret \in {[op |-> "caller", bias |-> bias, threw |-> FALSE] : bias \in BiasInputs}

CalculateConfidence ==
    /\ ret.op = "caller"
    /\ ret' = [op |-> "calculateConfidence", bias |-> ret.bias, threw |-> FALSE,
               result |-> calculateConfidence(ret.bias)]
    /\ UNCHANGED <<candidates, attemptHistory>>

ClassifyFeedback ==
    /\ ret.op = "caller"
    /\ ret' = [op |-> "classifyFeedback", bias |-> ret.bias, threw |-> FALSE,
               result |-> classifyFeedback(ret.bias)]
    /\ UNCHANGED <<candidates, attemptHistory>>

NextBias == CalculateConfidence \/ ClassifyFeedback

SpecBias == InitBias /\ [][NextBias]_vars

----------------------------------------------------------------------------
(* Evaluation of a setup.  A caller holds a setup, inside or outside the    *)
(* unit range, and either computes its bias and confidence, as              *)
(* testBasicCalculations does, or scores it as a candidate is scored.       *)

EvalLevels == {0 - One \div 5, 0, (3 * One) \div 10, Half, One, (13 * One) \div 10}

EvalSetupInputs == [1..Len(Params) -> EvalLevels]

InitEval ==
    /\ candidates = <<>>
    /\ attemptHistory = <<>>
    /\ ret \in {[op |-> "caller", setup |-> setup, threw |-> FALSE] :
                    setup \in EvalSetupInputs}

TestBasicCalculations ==
    /\ ret.op = "caller"
    /\ LET bias == calculateBias(ret.setup).value
           confidence == calculateConfidence(bias)
       IN  ret' = [op |-> "testBasicCalculations", setup |-> ret.setup, threw |-> FALSE,
                   bias |-> bias, confidence |-> confidence]
    /\ UNCHANGED <<candidates, attemptHistory>>

CalculateScore ==
    /\ ret.op = "caller"
    /\ LET bias == calculateBias(ret.setup).value
           confidence == calculateConfidence(bias)
       IN  ret' = [op |-> "calculateScore", setup |-> ret.setup, threw |-> FALSE,
                   bias |-> bias, confidence |-> confidence,
                   score |-> calculateScore(ret.setup, bias, confidence)]
    /\ UNCHANGED <<candidates, attemptHistory>>

NextEval == TestBasicCalculations \/ CalculateScore

SpecEval == InitEval /\ [][NextEval]_vars

----------------------------------------------------------------------------
(* The optimizer with its queries as steps.  Between attempts and resets a   *)
(* caller asks for recommendations, statistics, a predicted confidence, the *)
(* optimal flag or the estimate; ret holds the answer.                       *)

QuerySetup == MkSetup(Half, Half, Half, Half, Half)

QueryCounts == {0, 3, 10}

predictConfidence(setup) ==
    LET bias == calculateBias(setup).value
    IN  calculateConfidence(bias)

\* getBestRecommendations taking its answer out of the pool (splice for slice)
GetBestRecommendationsSplice(count) ==
    /\ ret' = [op |-> "getBestRecommendations", count |-> count, threw |-> FALSE,
               value |-> getBestRecommendations(count)]
    /\ candidates' = SubSeq(candidates, Min(count, Len(candidates)) + 1, Len(candidates))
    /\ UNCHANGED attemptHistory

GetBestRecommendations(count) ==
    /\ ret' = [op |-> "getBestRecommendations", count |-> count, threw |-> FALSE,
               value |-> getBestRecommendations(count)]
    /\ UNCHANGED <<candidates, attemptHistory>>

GetStats ==
    /\ ret' = [op |-> "getStats", threw |-> FALSE, value |-> getStats]
    /\ UNCHANGED <<candidates, attemptHistory>>

PredictConfidence(setup) ==
    /\ ret' = [op |-> "predictConfidence", setup |-> setup, threw |-> FALSE,
               value |-> predictConfidence(setup)]
    /\ UNCHANGED <<candidates, attemptHistory>>

IsOptimal ==
    /\ ret' = [op |-> "isOptimal", threw |-> FALSE, value |-> isOptimal]
    /\ UNCHANGED <<candidates, attemptHistory>>

EstimateAttemptsToOptimal ==
    /\ ret' = [op |-> "estimateAttemptsToOptimal", threw |-> FALSE,
               value |-> estimateAttemptsToOptimal]
    /\ UNCHANGED <<candidates, attemptHistory>>

NextQuery ==
    \/ \E feedback \in FeedbackInputs : RecordAttempt(QuerySetup, feedback)
    \/ Reset
    \/ \E count \in QueryCounts : GetBestRecommendations(count)
    \/ GetStats
    \/ \E setup \in SetupInputs : PredictConfidence(setup)
    \/ IsOptimal
    \/ EstimateAttemptsToOptimal

SpecQuery == Init /\ [][NextQuery]_vars

----------------------------------------------------------------------------
(* The two feedback filters on one setup.  A caller holds a setup of the     *)
(* pool grid and a submitted feedback; the body of the findOptimalSetup loop *)
(* decides whether the setup is kept, and the filter of narrowCandidates     *)
(* decides whether the pool candidate of the same setup is kept.             *)

\* the bias with every metric but m at 0.5
isolated(bias, m) == [k \in 1..Len(Metrics) |-> IF k = m THEN bias[k] ELSE BiasHalf]

\* setupFeedback of findOptimalSetup
setupFeedbackOf(bias) ==
    MkFeedback(classifyFeedback(isolated(bias, oversteer)),
               classifyFeedback(isolated(bias, brakingStability)),
               classifyFeedback(isolated(bias, cornering)),
               classifyFeedback(isolated(bias, traction)),
               classifyFeedback(isolated(bias, straights)))

\* matchesFeedback of findOptimalSetup
matchesFeedbackOf(setupFeedback, feedback) ==
    /\ calculatorFeedbackMatches(setupFeedback[oversteer], feedback[oversteer])
    /\ calculatorFeedbackMatches(setupFeedback[brakingStability], feedback[brakingStability])
    /\ calculatorFeedbackMatches(setupFeedback[cornering], feedback[cornering])
    /\ calculatorFeedbackMatches(setupFeedback[traction], feedback[traction])
    /\ calculatorFeedbackMatches(setupFeedback[straights], feedback[straights])

InitFilter ==
    /\ candidates = <<>>
    /\ attemptHistory = <<>>
    /\ ret \in {[op |-> "caller", setup |-> gridSetups[k], feedback |-> feedback,
                 threw |-> FALSE] : k \in 1..Len(gridSetups), feedback \in FeedbackInputs}

FindOptimalSetupFilter ==
    /\ ret.op = "caller"
    /\ LET bias == calculateBias(ret.setup).value
           setupFeedback == setupFeedbackOf(bias)
       IN  ret' = [op |-> "findOptimalSetup", setup |-> ret.setup,
                   feedback |-> ret.feedback, threw |-> FALSE, bias |-> bias,
                   setupFeedback |-> setupFeedback,
                   matchesFeedback |-> matchesFeedbackOf(setupFeedback, ret.feedback)]
    /\ UNCHANGED <<candidates, attemptHistory>>

NarrowCandidatesFilter ==
    /\ ret.op = "caller"
    /\ LET c == evaluateCandidate(ret.setup)
       IN  ret' = [op |-> "narrowCandidates", setup |-> ret.setup,
                   feedback |-> ret.feedback, threw |-> FALSE, bias |-> c.bias,
                   kept |-> feedbackMatches(c.feedback, ret.feedback)]
    /\ UNCHANGED <<candidates, attemptHistory>>

NextFilter == FindOptimalSetupFilter \/ NarrowCandidatesFilter

SpecFilter == InitFilter /\ [][NextFilter]_vars

----------------------------------------------------------------------------
(* SimpleCLI.  The shell owns an optimizer and currentSetup, kept in         *)
(* ret.currentSetup.  A menu choice is one step: the lines the user types at *)
(* its prompts are the inputs of the step.  A typed number is what           *)
(* parseFloat made of the line: NaN, or a value in thousandths.              *)

NaN == [isNaN |-> TRUE, value |-> 0]

Number(thousandths) == [isNaN |-> FALSE, value |-> thousandths]

getMiddleSetup == MkSetup(Half, Half, Half, Half, Half)

\* getNumberInput accepting every number that is not NaN
RECURSIVE getNumberInputAnyNumber(_)
getNumberInputAnyNumber(lines) ==
    IF lines = <<>> THEN Thrown("waiting for input")
    ELSE LET num == Head(lines)
         IN  IF ~num.isNaN
             THEN Return(num.value)
             ELSE getNumberInputAnyNumber(Tail(lines))

\* the prompt is repeated until a line is accepted; lines holds the lines
\* typed at this prompt, and the call has not returned while none is accepted
RECURSIVE getNumberInput(_)
getNumberInput(lines) ==
    IF lines = <<>> THEN Thrown("waiting for input")
    ELSE LET num == Head(lines)
         IN  IF ~num.isNaN /\ num.value >= 0 /\ num.value <= 100 * One
             THEN Return(num.value)
             ELSE getNumberInput(Tail(lines))

getFeedbackInput(choice) ==
    CASE choice = "1" -> Return(OPTIMAL)
      [] choice = "2" -> Return(GREAT)
      [] choice = "3" -> Return(GOOD)
      [] choice = "4" -> Return(BAD)
      [] OTHER -> Thrown("Invalid choice")

\* what is typed at the 5 prompts of setSetupManually
NumberLines ==
    { [p \in 1..5 |-> <<Number(0)>>],
      <<<<NaN, Number(150 * One), Number(100 * One)>>, <<Number(100 * One)>>,
        <<Number(0 - One), Number(100 * One)>>, <<Number(80 * One)>>,
        <<Number(60 * One)>>>>,
      <<<<Number(37 * One + Half)>>, <<Number(100 * One + 1), Number(100 * One)>>,
        <<Number(0)>>, <<Number(Half)>>, <<NaN, NaN, Number(99 * One)>>>> }

\* what is typed at the 5 prompts of runPracticeSession
FeedbackChoices ==
    { <<"1", "3", "2", "1", "4">>, <<"1", "1", "2", "1", "1">>,
      <<"1", "2", "5", "1", "1">> }

MaxPractice == 2

InitCLI ==
    /\ candidates = initializeCandidates
    /\ attemptHistory = <<>>
    /\ ret = [op |-> "constructor", currentSetup |-> getMiddleSetup, threw |-> FALSE]

SetSetupManually(lines) ==
    /\ LET frontWing == getNumberInput(lines[1])
           rearWing == getNumberInput(lines[2])
           antiRoll == getNumberInput(lines[3])
           camber == getNumberInput(lines[4])
           toe == getNumberInput(lines[5])
       IN  /\ ~frontWing.threw /\ ~rearWing.threw /\ ~antiRoll.threw
           /\ ~camber.threw /\ ~toe.threw
           /\ ret' = [op |-> "setSetupManually", threw |-> FALSE,
                      currentSetup |->
                          MkSetup(frontWing.value \div 100, rearWing.value \div 100,
                                  antiRoll.value \div 100, camber.value \div 100,
                                  toe.value \div 100)]
    /\ UNCHANGED <<candidates, attemptHistory>>

\* choice is the line typed at "Use the first recommendation / Keep current setup"
RunPracticeSession(choices, choice) ==
    LET inputs == [m \in 1..5 |-> getFeedbackInput(choices[m])]
    IN  IF \E m \in 1..5 : inputs[m].threw
        THEN \* caught: "Invalid input. Please try again."
             /\ ret' = [op |-> "runPracticeSession", threw |-> FALSE,
                        currentSetup |-> ret.currentSetup]
             /\ UNCHANGED <<candidates, attemptHistory>>
        ELSE LET feedback == MkFeedback(inputs[1].value, inputs[2].value, inputs[3].value,
                                        inputs[4].value, inputs[5].value)
                 bias == calculateBias(ret.currentSetup).value
                 confidence == calculateConfidence(bias)
             IN  /\ Len(attemptHistory) < MaxPractice
                 /\ attemptHistory' = Append(attemptHistory,
                        [setup |-> ret.currentSetup, feedback |-> feedback,
                         confidence |-> confidence])
                 /\ narrowCandidates(feedback)
                 \* showRecommendationsFromFeedback
                 /\ LET recommendations == getBestRecommendations(3)'
                    IN  ret' = [op |-> "runPracticeSession", threw |-> FALSE,
                                currentSetup |->
                                    IF Len(recommendations) = 0 THEN ret.currentSetup
                                    ELSE IF choice = "1" /\ Len(recommendations) > 0
                                         THEN recommendations[1]
                                         ELSE ret.currentSetup]

ResetSession ==
    /\ attemptHistory' = <<>>
    /\ candidates' = initializeCandidates
    /\ ret' = [op |-> "resetSession", currentSetup |-> getMiddleSetup, threw |-> FALSE]

NextCLI ==
    \/ \E lines \in NumberLines : SetSetupManually(lines)
    \/ \E choices \in FeedbackChoices, choice \in {"1", "2"} :
          RunPracticeSession(choices, choice)
    \/ ResetSession

SpecCLI == InitCLI /\ [][NextCLI]_vars

----------------------------------------------------------------------------
(* The grid enumerations.  generateAllCombinations and initializeCandidates  *)
(* run 5 nested loops, each from 0 while <= steps; ret holds the two outer   *)
(* loop variables and the number of points pushed so far.  One step is one   *)
(* pass of the rw loop body, the three inner loops run to their end.         *)

calculatorSteps == 20

\* the passes of: for (x = from; x < steps; x += by), the bound excluded
RECURSIVE passesExclusive(_, _, _)
passesExclusive(from, to, by) ==
    IF from < to THEN 1 + passesExclusive(from + by, to, by) ELSE 0

\* the passes of: for (x = from; x <= steps; x += by)
RECURSIVE passes(_, _, _)
passes(from, to, by) ==
    IF from <= to THEN 1 + passes(from + by, to, by) ELSE 0

Enumerations ==
    { [op |-> "generateAllCombinations", steps |-> calculatorSteps, by |-> 1],
      [op |-> "initializeCandidates", steps |-> steps, by |-> stride] }

InitEnumerate ==
    /\ candidates = <<>>
    /\ attemptHistory = <<>>
    /\ ret \in {[op |-> e.op, steps |-> e.steps, by |-> e.by, threw |-> FALSE,
                 fw |-> 0, rw |-> 0, length |-> 0, returned |-> FALSE] :
                    e \in Enumerations}

\* for ar, for tc, for to: push
RearWingPass ==
    /\ ~ret.returned
    /\ ret.fw <= ret.steps
    /\ ret.rw <= ret.steps
    /\ LET inner == passes(0, ret.steps, ret.by)
       IN  ret' = [ret EXCEPT !.length = @ + inner * inner * inner,
                              !.rw = @ + ret.by]
    /\ UNCHANGED <<candidates, attemptHistory>>

\* the rw loop has ended: next pass of the fw loop
FrontWingPass ==
    /\ ~ret.returned
    /\ ret.fw <= ret.steps
    /\ ret.rw > ret.steps
    /\ ret' = [ret EXCEPT !.fw = @ + ret.by, !.rw = 0]
    /\ UNCHANGED <<candidates, attemptHistory>>

ReturnCombinations ==
    /\ ~ret.returned
    /\ ret.fw > ret.steps
    /\ ret' = [ret EXCEPT !.returned = TRUE]
    /\ UNCHANGED <<candidates, attemptHistory>>

NextEnumerate == RearWingPass \/ FrontWingPass \/ ReturnCombinations

SpecEnumerate == InitEnumerate /\ [][NextEnumerate]_vars

\* the loops are synchronous code: a pass that can run does run
SpecEnumerateFair == SpecEnumerate /\ WF_vars(NextEnumerate)

----------------------------------------------------------------------------
(* SetupCalculator.findOptimalSetup.  The search grid has 21 levels per      *)
(* parameter; the model enumerates every SearchStride-th of them, in the     *)
(* loop order of generateAllCombinations.  An absent feedback is undefined.  *)

SearchStride == 5

undefined == <<>>

RECURSIVE searchLevelSeq(_)
searchLevelSeq(l) ==
    IF l > calculatorSteps THEN <<>>
    ELSE <<(l * One) \div calculatorSteps>> \o searchLevelSeq(l + SearchStride)

generateAllCombinations ==
    LET L == searchLevelSeq(0)
        n == Len(L)
    IN  [k \in 1..(n * n * n * n * n) |->
            LET i == k - 1
            IN  MkSetup(L[((i \div (n * n * n * n)) % n) + 1],
                        L[((i \div (n * n * n)) % n) + 1],
                        L[((i \div (n * n)) % n) + 1],
                        L[((i \div n) % n) + 1],
                        L[(i % n) + 1])]

\* what the loop of findOptimalSetup computes for a setup of the grid
searchEvaluated ==
    [setup \in {generateAllCombinations[k] : k \in 1..Len(generateAllCombinations)} |->
        LET bias == calculateBias(setup).value
        IN  [setup |-> setup,
             confidence |-> calculateConfidence(bias),
             setupFeedback |-> setupFeedbackOf(bias)]]

(* Array.prototype.sort((a, b) => b.confidence - a.confidence): stable,      *)
(* highest confidence first.                                                 *)
IsSortedByConfidence(s) ==
    \A i \in 1..(Len(s) - 1) : s[i].confidence >= s[i + 1].confidence

RECURSIVE StableSortByConfidence(_)
StableSortByConfidence(s) ==
    IF Len(s) <= 1 THEN s
    ELSE LET pivot == s[(Len(s) + 1) \div 2].confidence
         IN  StableSortByConfidence(SelectSeq(s, LAMBDA c : c.confidence > pivot))
             \o SelectSeq(s, LAMBDA c : c.confidence = pivot)
             \o StableSortByConfidence(SelectSeq(s, LAMBDA c : c.confidence < pivot))

sortByConfidence(s) == IF IsSortedByConfidence(s) THEN s ELSE StableSortByConfidence(s)

\* findOptimalSetup returning every valid setup, not the first 10
findOptimalSetupOverAll(allCombinations, feedback) ==
    LET evaluated == [k \in 1..Len(allCombinations) |-> searchEvaluated[allCombinations[k]]]
        validSetups ==
            IF feedback # undefined
            THEN SelectSeq(evaluated,
                           LAMBDA e : matchesFeedbackOf(e.setupFeedback, feedback))
            ELSE evaluated
        sorted == sortByConfidence(validSetups)
    IN  [i \in 1..Len(sorted) |-> sorted[i].setup]

\* findOptimalSetup on the enumeration allCombinations
findOptimalSetupOver(allCombinations, feedback) ==
    LET evaluated == [k \in 1..Len(allCombinations) |-> searchEvaluated[allCombinations[k]]]
        validSetups ==
            IF feedback # undefined
            THEN SelectSeq(evaluated,
                           LAMBDA e : matchesFeedbackOf(e.setupFeedback, feedback))
            ELSE evaluated
        sorted == sortByConfidence(validSetups)
        top == slice(sorted, 0, 10)
    IN  [i \in 1..Len(top) |-> top[i].setup]

findOptimalSetup(feedback) == findOptimalSetupOver(generateAllCombinations, feedback)

\* the targets a caller passes: none, or one level per metric, here
\* OPTIMAL, GREAT or BAD, and OPTIMAL or BAD for straights
SearchFeedbackInputs ==
    {undefined} \cup
    {feedback \in [1..Len(Metrics) -> {OPTIMAL, GREAT, BAD}] : feedback[straights] # GREAT}

InitSearch ==
    /\ candidates = <<>>
    /\ attemptHistory = <<>>
    /\ ret \in {[op |-> "caller", feedback |-> feedback, threw |-> FALSE] :
                    feedback \in SearchFeedbackInputs}

FindOptimalSetup ==
    /\ ret.op = "caller"
    /\ ret' = [op |-> "findOptimalSetup", feedback |-> ret.feedback, threw |-> FALSE,
               value |-> findOptimalSetup(ret.feedback)]
    /\ UNCHANGED <<candidates, attemptHistory>>

NextSearch == FindOptimalSetup

SpecSearch == InitSearch /\ [][NextSearch]_vars

----------------------------------------------------------------------------
(* Enumeration orders.  The grids are enumerated by 5 nested loops; another  *)
(* order nests the loops differently (rotate: the loop that is outermost)    *)
(* and runs them upwards, downwards, or only the innermost downwards.  The   *)
(* sorted pool and findOptimalSetup are then computed on that enumeration.   *)

\* three attempts whose two differences have opposite signs and a positive mean
C10_Witness ==
    /\ Len(attemptHistory) = 3
    /\ attemptHistory[2].confidence < attemptHistory[1].confidence
    /\ attemptHistory[3].confidence > attemptHistory[1].confidence
    /\ getStats.convergenceRate.num > 0

MaxCount == 6

Orders == [rotate : 0..4, direction : {"ascending", "descending", "innermost descending"}]

\* the code's order: fw outermost, every loop ascending
codeOrder == [rotate |-> 0, direction |-> "ascending"]

\* the grid of n levels per parameter, s, enumerated in the order
enumeratedIn(s, n, order) ==
    LET digit(i, p) ==
            CASE p = 0 -> (i \div (n * n * n * n)) % n
              [] p = 1 -> (i \div (n * n * n)) % n
              [] p = 2 -> (i \div (n * n)) % n
              [] p = 3 -> (i \div n) % n
              [] p = 4 -> i % n
        turned(i, p) ==
            IF order.direction = "descending"
               \/ (order.direction = "innermost descending" /\ p = 4)
            THEN n - 1 - digit(i, p)
            ELSE digit(i, p)
        \* the loop at depth p runs over parameter (p + rotate) % 5
        level(i, q) == turned(i, (q + 5 - order.rotate) % 5)
    IN  [k \in 1..Len(s) |->
            LET i == k - 1
            IN  s[level(i, 0) * n * n * n * n + level(i, 1) * n * n * n
                  + level(i, 2) * n * n + level(i, 3) * n + level(i, 4) + 1]]

\* initializeCandidates on the enumeration setups
initializeCandidatesOver(setups) ==
    sortByScore([k \in 1..Len(setups) |-> evaluateCandidate(setups[k])])

InitOrder ==
    /\ candidates = <<>>
    /\ attemptHistory = <<>>
    /\ ret \in {[op |-> "caller", order |-> order, feedback |-> feedback, threw |-> FALSE] :
                    order \in Orders, feedback \in {undefined} \cup FeedbackInputs}

\* the first MaxCount entries of the sorted pool: getBestRecommendations(n)
\* is the first n of value for every n <= MaxCount
InitializeCandidatesIn ==
    /\ ret.op = "caller"
    /\ ret.feedback = undefined
    /\ \E top \in {slice(initializeCandidatesOver(
                             enumeratedIn(gridSetups, Len(levelSeq(0)), ret.order)),
                         0, MaxCount)} :
          ret' = [op |-> "initializeCandidates", order |-> ret.order, threw |-> FALSE,
                  value |-> [i \in 1..Len(top) |-> top[i].setup],
                  scores |-> [i \in 1..Len(top) |-> top[i].score]]
    /\ UNCHANGED <<candidates, attemptHistory>>

FindOptimalSetupIn ==
    /\ ret.op = "caller"
    /\ \E value \in {findOptimalSetupOver(
                         enumeratedIn(generateAllCombinations, Len(searchLevelSeq(0)),
                                      ret.order),
                         ret.feedback)} :
          ret' = [op |-> "findOptimalSetup", order |-> ret.order,
                  feedback |-> ret.feedback, threw |-> FALSE,
                  value |-> value,
                  confidences |-> [i \in 1..Len(value) |-> searchEvaluated[value[i]].confidence]]
    /\ UNCHANGED <<candidates, attemptHistory>>

NextOrder == InitializeCandidatesIn \/ FindOptimalSetupIn

SpecOrder == InitOrder /\ [][NextOrder]_vars

----------------------------------------------------------------------------
(* Properties *)

\* position of a level in BAD < GOOD < GREAT < OPTIMAL
Ordinal(level) ==
    CASE level = BAD -> 0
      [] level = GOOD -> 1
      [] level = GREAT -> 2
      [] level = OPTIMAL -> 3

WithinOneLevel(own, submitted) ==
    \A m \in 1..5 : Abs(Ordinal(own[m]) - Ordinal(submitted[m])) <= 1

InUnitRange(setup) == \A p \in 1..5 : setup[p] >= 0 /\ setup[p] <= One

OnGrid(setup) == \A p \in 1..5 : setup[p] \in {(l * One) \div 5 : l \in 0..5}

Regenerated(c) == ~OnGrid(c.setup)

\* the step is a recordAttempt call
RecordStep == ret'.op = "recordAttempt" /\ Len(attemptHistory') = Len(attemptHistory) + 1

\* the candidates of the pool that the submitted feedback keeps
Survivors(pool, submitted) ==
    SelectSeq(pool, LAMBDA c : WithinOneLevel(c.feedback, submitted))

Occurrences(s, x) == Cardinality({i \in 1..Len(s) : s[i] = x})

\* C1: after a recordAttempt, every candidate of the pool, a survivor or one
\* added by regeneration, is within one level of the submitted feedback on
\* each of the 5 metrics.
C1_PoolCompatibleWithSubmitted ==
    ret.op = "recordAttempt" =>
        \A i \in 1..Len(candidates) :
            WithinOneLevel(candidates[i].feedback, Last(attemptHistory).feedback)

C1_Witness ==
    /\ ret.op = "recordAttempt"
    /\ \E i, j \in 1..Len(candidates) :
            Regenerated(candidates[i]) /\ ~Regenerated(candidates[j])

\* C2: in every reachable state the pool is in non-increasing order of score.
C2_PoolSortedByScore ==
    \A i \in 1..(Len(candidates) - 1) : candidates[i].score >= candidates[i + 1].score

\* a regenerated candidate that the sort has moved in front of a survivor
C2_Witness ==
    \E i \in 1..(Len(candidates) - 1) :
        /\ Regenerated(candidates[i])
        /\ ~Regenerated(candidates[i + 1])
        /\ candidates[i].score > candidates[i + 1].score

\* dot product of the coefficient row of metric m with (setup - 0.5)
RowDot(m, setup) ==
    coefficientMatrix[m][1] * (setup[1] - Half)
    + coefficientMatrix[m][2] * (setup[2] - Half)
    + coefficientMatrix[m][3] * (setup[3] - Half)
    + coefficientMatrix[m][4] * (setup[4] - Half)
    + coefficientMatrix[m][5] * (setup[5] - Half)

\* C3: for every setup, in the unit range or not, calculateBias does not throw
\* and yields, per metric, initialBias plus the dot product of the metric's
\* coefficient row with (setup - 0.5); the middle setup yields
\* {0.5, 0.45, 0.2, 0.25, 1.0}.
C3_BiasIsLinearMap ==
    ret.op = "calculateBias" =>
        /\ ~ret.result.threw
        /\ \A m \in 1..5 : ret.result.value[m] = initialBias[m] + RowDot(m, ret.setup)
        /\ ret.setup = <<Half, Half, Half, Half, Half>> =>
                ret.result.value = <<50000, 45000, 20000, 25000, 100000>>

C3_Witness ==
    /\ ret.op = "calculateBias"
    /\ ~InUnitRange(ret.setup)
    /\ ret.result.value[straights] > BiasOne

\* C4 as stated: a recordAttempt with a setup that has a component outside [0, 1] is
\* rejected with an error and leaves the pool and the history unchanged.
C4_InvalidSetupRejected ==
    [][(ret'.op = "recordAttempt" /\ ~InUnitRange(ret'.setup))
            => (ret'.threw /\ UNCHANGED <<candidates, attemptHistory>>)]_vars

\* C5: after reset the history is empty and the pool holds the 6^5 = 7776 grid
\* candidates, one for each setup with every parameter in {0, 0.2, .., 1.0}.
C5_ResetRestoresFreshPool ==
    ret.op = "reset" =>
        /\ getStats.attemptCount = 0
        /\ Len(candidates) = 7776
        /\ \A i \in 1..Len(candidates) : OnGrid(candidates[i].setup)
        /\ Cardinality({candidates[i].setup : i \in 1..Len(candidates)}) = 7776

C5_Witness == ret.op = "reset" /\ Len(candidates) = 7776 /\ attemptHistory = <<>>

\* C6: when at least 5 candidates survive the filter of a recordAttempt, the
\* pool after the call is the survivors, in their order, and nothing else.
C6_PopulatedPoolOnlyShrinks ==
    [][RecordStep =>
            \A kept \in {Survivors(candidates, ret'.feedback)} :
                Len(kept) >= 5 =>
                    /\ candidates' = kept
                    /\ Len(candidates') <= Len(candidates)]_vars

\* the pool after a first call that kept exactly 5 of the 7776 candidates
C6_Witness ==
    /\ ret.op = "recordAttempt"
    /\ Len(attemptHistory) = 1
    /\ Len(candidates) = 5

\* positions of the pool holding a candidate that the survivors do not account for
AddedTo(kept, pool) ==
    {i \in 1..Len(pool) : Occurrences(pool, pool[i]) > Occurrences(kept, pool[i])}

NearBase(setup, base) == \A p \in 1..5 : Abs(setup[p] - base[p]) <= One \div 20

RegenerationIsLocal(kept, pool, submitted) ==
    /\ \A i \in 1..Len(kept) : Occurrences(pool, kept[i]) >= Occurrences(kept, kept[i])
    /\ Len(pool) - Len(kept) <= 15
    /\ Len(pool) <= 19
    /\ \A i \in AddedTo(kept, pool) :
            /\ \E b \in 1..Min(3, Len(kept)) : NearBase(pool[i].setup, kept[b].setup)
            /\ InUnitRange(pool[i].setup)
            /\ WithinOneLevel(pool[i].feedback, submitted)

\* C7: when fewer than 5 candidates survive, the pool after the call holds
\* every survivor and at most 15 more candidates, at most 19 in all; each
\* added candidate is within 0.05 of one of the first 3 survivors in every
\* parameter, has every parameter in [0, 1], and is compatible with the
\* submitted feedback.
C7_RegenerationIsLocal ==
    [][RecordStep =>
            \A kept \in {Survivors(candidates, ret'.feedback)} :
                Len(kept) < 5 => RegenerationIsLocal(kept, candidates', ret'.feedback)]_vars

\* a regenerated pool of more than 4 candidates: one of the added candidates
\* was held at the bound 1.0 by the clamp on one parameter and moved off the
\* grid by the largest upward jitter on another
C7_Witness ==
    /\ ret.op = "recordAttempt"
    /\ Len(candidates) > 4
    /\ \E i \in 1..Len(candidates) :
            /\ Regenerated(candidates[i])
            /\ candidates[i].setup[frontWingAngle] = One
            /\ \E p \in 1..5 : candidates[i].setup[p] % (One \div 5) = (One \div 20) - 1

\* C8: a recordAttempt appends one record {setup, feedback, confidence of the
\* setup} to the history and changes no earlier record; any other step that
\* changes the history is a reset, which empties it.
C8_HistoryAppendOnly ==
    [][IF ret'.op = "recordAttempt"
       THEN attemptHistory' =
                Append(attemptHistory,
                       [setup |-> ret'.setup, feedback |-> ret'.feedback,
                        confidence |-> calculateConfidence(calculateBias(ret'.setup).value)])
            /\ getStats'.attemptCount = getStats.attemptCount + 1
       ELSE attemptHistory' = <<>>]_vars

C8_Witness ==
    /\ ret.op = "recordAttempt"
    /\ Len(attemptHistory) >= 2
    /\ attemptHistory[1] # Last(attemptHistory)

\* C9: estimateAttemptsToOptimal is 0 when bestConfidence >= 99; otherwise it
\* is a positive integer: 5 when the convergence rate is <= 0, else the least
\* n with n * rate >= 99 - bestConfidence.
C9_EstimateIsZeroOrPositive ==
    LET stats == getStats
        rate == stats.convergenceRate
        remaining == 99 * PctOne - stats.bestConfidence
        n == estimateAttemptsToOptimal
    IN  /\ stats.bestConfidence >= 99 * PctOne => n = 0
        /\ stats.bestConfidence < 99 * PctOne =>
                /\ n \in Nat \ {0}
                /\ rate.num <= 0 => n = 5
                /\ rate.num > 0 =>
                        /\ n * rate.num >= remaining * rate.den
                        /\ (n - 1) * rate.num < remaining * rate.den

\* a positive rate over an emptied pool (bestConfidence 0): the estimate is the
\* ceiling of a quotient above 1
C9_Witness ==
    /\ getStats.convergenceRate.num > 0
    /\ Len(candidates) = 0
    /\ estimateAttemptsToOptimal > 1

\* sum of the successive confidence differences of a history
RECURSIVE DeltaSum(_)
DeltaSum(h) ==
    IF Len(h) < 2 THEN 0
    ELSE (h[2].confidence - h[1].confidence) + DeltaSum(Tail(h))

\* C10 as stated: the convergence rate is the mean of the successive
\* confidence differences, and 0 for fewer than 2 attempts.
C10_RateIsMeanOfDeltas ==
    LET rate == getStats.convergenceRate
        n == Len(attemptHistory)
    IN  IF n < 2 THEN rate.num = 0
        ELSE rate.num * (n - 1) = DeltaSum(attemptHistory) * rate.den

\* C10 as amended: the convergence rate is the larger of 0 and the mean of the
\* successive confidence differences, and 0 for fewer than 2 attempts.
C10_RateIsClampedMean ==
    LET rate == getStats.convergenceRate
        n == Len(attemptHistory)
    IN  IF n < 2 \/ DeltaSum(attemptHistory) <= 0 THEN rate.num = 0
        ELSE rate.num * (n - 1) = DeltaSum(attemptHistory) * rate.den

\* C11: for every count n >= 0, getBestRecommendations(n) is the setups of the
\* first min(n, pool size) pool entries, in the pool's order; on an empty pool
\* it is the empty sequence.
C11_RecommendationsArePoolPrefix ==
    \A n \in 0..MaxCount :
        LET result == getBestRecommendations(n)
        IN  /\ Len(result) = Min(n, Len(candidates))
            /\ \A i \in 1..Len(result) : result[i] = candidates[i].setup
            /\ Len(candidates) = 0 => result = <<>>

\* a call has emptied the pool: 5 recommendations are asked for, none is given
C11_Witness ==
    /\ ret.op = "recordAttempt"
    /\ Len(candidates) = 0
    /\ getBestRecommendations(5) = <<>>

\* C12: isOptimal is true exactly when the pool is not empty and its first
\* candidate, which has the highest score, has confidence >= 99.
C12_OptimalIffTopConfident ==
    /\ isOptimal <=> (Len(candidates) > 0 /\ candidates[1].confidence >= 99 * PctOne)
    /\ \A i \in 1..Len(candidates) : candidates[1].score >= candidates[i].score
    /\ Len(candidates) = 0 => ~isOptimal

\* an emptied pool, for which isOptimal is false
C12_Witness ==
    /\ ret.op = "recordAttempt"
    /\ Len(candidates) = 0
    /\ ~isOptimal

\* C13 as stated: a session that follows the first recommendation after every
\* attempt has reached an optimal setup, isOptimal, once 5 attempts are made.
C13_SessionOptimalWithinFive ==
    (ret.op = "demonstrateOptimization" /\ Len(attemptHistory) >= 5) => isOptimal

\* what the sessions do instead: isOptimal is true in no state they reach
SessionNeverOptimal == ~isOptimal

\* C14: each compatibility check is true exactly when the positions of the two
\* levels in BAD < GOOD < GREAT < OPTIMAL differ by at most 1; it is true of a
\* level and itself, gives the same for a pair and the swapped pair, and the
\* optimizer's and the calculator's checks give the same on every pair.
C14_CompatibleIffWithinOneLevel ==
    LET x == ret.calculated
        y == ret.expected
        near == Abs(Ordinal(x) - Ordinal(y)) <= 1
        made == ret.optimizer \cup ret.optimizerSwapped
                    \cup ret.calculator \cup ret.calculatorSwapped
    IN  /\ \A r \in made : r = near
        /\ x = y => \A r \in made : r
        /\ \A r \in ret.optimizer, q \in ret.optimizerSwapped : r = q
        /\ \A r \in ret.calculator, q \in ret.calculatorSwapped : r = q
        /\ \A r \in ret.optimizer, q \in ret.calculator : r = q

\* all four calls made on GOOD and OPTIMAL, two levels apart: all say no
C14_Witness ==
    /\ ret.calculated = GOOD
    /\ ret.expected = OPTIMAL
    /\ ret.optimizer = {FALSE}
    /\ ret.optimizerSwapped = {FALSE}
    /\ ret.calculator = {FALSE}
    /\ ret.calculatorSwapped = {FALSE}

\* distance of a bias value from 0.5
DistanceFromHalf(value) == Abs(value - BiasOne \div 2)

\* p(m) of a bias value: min(distance * 100, 20) when distance > 0.007, else 0
PenaltyOf(value) ==
    IF DistanceFromHalf(value) * 1000 > 7 * BiasOne
    THEN Min((DistanceFromHalf(value) * PctOne) \div (BiasOne \div 100), 20 * PctOne)
    ELSE 0

\* C15: for every bias vector, calculateConfidence is max(0, 100 - the sum of
\* the 5 penalties p(m)), where p(m) = min(distance * 100, 20) when the distance
\* of the metric from 0.5 is strictly above 0.007 and 0 otherwise; the result
\* is within [0, 100].
C15_ConfidenceIsFlooredPenaltySum ==
    ret.op = "calculateConfidence" =>
        /\ ret.result = Max(0, 100 * PctOne
                               - (PenaltyOf(ret.bias[1]) + PenaltyOf(ret.bias[2])
                                  + PenaltyOf(ret.bias[3]) + PenaltyOf(ret.bias[4])
                                  + PenaltyOf(ret.bias[5])))
        /\ ret.result >= 0
        /\ ret.result <= 100 * PctOne

\* all 5 penalties at the cap: 100 - 100 = 0; one more step would go below
C15_Witness ==
    /\ ret.op = "calculateConfidence"
    /\ \A m \in 1..5 : DistanceFromHalf(ret.bias[m]) > BiasOne \div 5
    /\ ret.result = 0

\* C16: moving one component of a bias vector farther from 0.5, the others
\* kept, never raises calculateConfidence: across the tolerance 0.007, below
\* the cap of 20 and past it.
C16_ConfidenceMonotoneInDistance ==
    ret.op = "calculateConfidence" =>
        \A m \in 1..5, value \in BiasLevels :
            DistanceFromHalf(value) >= DistanceFromHalf(ret.bias[m]) =>
                calculateConfidence([ret.bias EXCEPT ![m] = value]) <= ret.result

\* a vector with a component at the tolerance, where one more step away costs
\* confidence, and a component past the cap, where it costs nothing
C16_Witness ==
    /\ ret.op = "calculateConfidence"
    /\ ret.bias[oversteer] = BiasOne \div 2 + (7 * BiasOne) \div 1000
    /\ calculateConfidence([ret.bias EXCEPT ![oversteer] = ret.bias[oversteer] + 1])
            < ret.result
    /\ ret.bias[straights] = BiasOne
    /\ calculateConfidence([ret.bias EXCEPT ![straights] = 0 - BiasOne \div 20])
            = ret.result

\* sum of the 5 distances from 0.5 of a bias vector; their mean is a fifth of it
DistanceSum(bias) ==
    DistanceFromHalf(bias[1]) + DistanceFromHalf(bias[2]) + DistanceFromHalf(bias[3])
    + DistanceFromHalf(bias[4]) + DistanceFromHalf(bias[5])

\* C19: classifyFeedback gives one level for the bias vector, from the mean d of
\* the 5 distances from 0.5: OPTIMAL iff d <= 0.007, GREAT iff 0.007 < d <= 0.04,
\* GOOD iff 0.04 < d <= 0.1, BAD iff d > 0.1.
C19_ClassifiesMeanDistance ==
    ret.op = "classifyFeedback" =>
        LET total == DistanceSum(ret.bias)
            overOptimal == total * 1000 > 5 * 7 * BiasOne
            overGreat == total * 100 > 5 * 4 * BiasOne
            overGood == total * 10 > 5 * BiasOne
        IN  /\ ret.result \in FeedbackType
            /\ ret.result = OPTIMAL <=> ~overOptimal
            /\ ret.result = GREAT <=> (overOptimal /\ ~overGreat)
            /\ ret.result = GOOD <=> (overGreat /\ ~overGood)
            /\ ret.result = BAD <=> overGood

\* a vector whose mean distance is exactly 0.04, one component at distance 0.2
\* that alone would be BAD: the vector is GREAT
C19_Witness ==
    /\ ret.op = "classifyFeedback"
    /\ DistanceSum(ret.bias) = BiasOne \div 5
    /\ \E m \in 1..5 : DistanceFromHalf(ret.bias[m]) = BiasOne \div 5
    /\ ret.result = GREAT

\* the second setups of C18: every parameter below 0 or above 1
AffineOthers == [1..5 -> {0 - One \div 5, (13 * One) \div 10}]

\* C18: calculateBias is affine around the middle setup: for all setups a and
\* b, in [0, 1] or not, calculateBias(a) + calculateBias(b) - calculateBias(mid)
\* is calculateBias(a + b - mid) in every metric, mid the middle setup.
C18_BiasIsAffine ==
    ret.op = "calculateBias" =>
        \A b \in AffineOthers :
            LET a == ret.setup
                mid == <<One \div 2, One \div 2, One \div 2, One \div 2, One \div 2>>
                ofA == ret.result
                ofB == calculateBias(b)
                ofMid == calculateBias(mid)
                ofSum == calculateBias([p \in 1..5 |-> a[p] + b[p] - mid[p]])
            IN  /\ ~ofA.threw /\ ~ofB.threw /\ ~ofMid.threw /\ ~ofSum.threw
                /\ \A m \in 1..5 :
                        ofA.value[m] + ofB.value[m] - ofMid.value[m] = ofSum.value[m]

\* calculateBias applied to a setup in the unit range that is not the middle
\* setup, whose sum with the second setups leaves the range
C18_Witness ==
    /\ ret.op = "calculateBias"
    /\ InUnitRange(ret.setup)
    /\ ret.setup[frontWingAngle] = One
    /\ ret.setup[toeOut] = 0
    /\ ret.result.value # initialBias

\* C17: the setup (1,1,1,1,1) has bias {0.6, 0.375, 0.525, 0.5, 0.5} and
\* confidence 75; the middle setup has confidence 35.
C17_ReferenceValues ==
    ret.op = "testBasicCalculations" =>
        /\ ret.setup = <<One, One, One, One, One>> =>
                /\ ret.bias = <<60000, 37500, 52500, 50000, 50000>>
                /\ ret.confidence = 75 * PctOne
        /\ ret.setup = <<One \div 2, One \div 2, One \div 2, One \div 2, One \div 2>> =>
                ret.confidence = 35 * PctOne

\* bias and confidence computed for the setup (1,1,1,1,1)
C17_Witness ==
    /\ ret.op = "testBasicCalculations"
    /\ ret.setup = <<One, One, One, One, One>>
    /\ ret.confidence = 75 * PctOne

\* how far a bias value lies outside [0, 1]
PastBound(value) ==
    IF value < 0 THEN 0 - value ELSE IF value > BiasOne THEN value - BiasOne ELSE 0

\* C20: the score is max(0, confidence + (0.5 - balance) * 20 - extremePenalty),
\* balance the mean of |parameter - 0.5| over the 5 parameters, extremePenalty
\* the sum over the bias values outside [0, 1] of 50 times the distance past the
\* bound; for a setup within [0, 1] the score is within [0, 110].
C20_ScoreFormula ==
    ret.op = "calculateScore" =>
        LET balanceTimes5 ==
                Abs(ret.setup[1] - One \div 2) + Abs(ret.setup[2] - One \div 2)
                + Abs(ret.setup[3] - One \div 2) + Abs(ret.setup[4] - One \div 2)
                + Abs(ret.setup[5] - One \div 2)
            bonus == ((5 * (One \div 2) - balanceTimes5) * 20 * PctOne) \div (5 * One)
            extremePenalty ==
                ((PastBound(ret.bias[1]) + PastBound(ret.bias[2]) + PastBound(ret.bias[3])
                  + PastBound(ret.bias[4]) + PastBound(ret.bias[5])) * 50)
                    \div (BiasOne \div PctOne)
        IN  /\ ret.score = Max(0, ret.confidence + bonus - extremePenalty)
            /\ InUnitRange(ret.setup) => (ret.score >= 0 /\ ret.score <= 110 * PctOne)

\* a setup within [0, 1] whose bias leaves [0, 1]: the penalty is paid and the
\* score stays positive
C20_Witness ==
    /\ ret.op = "calculateScore"
    /\ InUnitRange(ret.setup)
    /\ \E m \in 1..5 : PastBound(ret.bias[m]) > 0
    /\ ret.score > 0
    /\ ret.score < ret.confidence

MaxConfidence(pool) ==
    IF Len(pool) = 0 THEN 0
    ELSE CHOOSE best \in {pool[i].confidence : i \in 1..Len(pool)} :
             \A i \in 1..Len(pool) : pool[i].confidence <= best

C25_CandidatesSelfConsistent ==
    \A i \in 1..Len(candidates) :
        \A c \in {candidates[i]} :
            /\ InUnitRange(c.setup)
            /\ c.bias = calculateBias(c.setup).value
            /\ c.confidence = calculateConfidence(c.bias)
            /\ c.confidence >= 0 /\ c.confidence <= 100 * PctOne
            /\ \A m \in 1..Len(Metrics) : c.feedback[m] = classifyBiasMetric(c.bias[m])
            /\ c.score = calculateScore(c.setup, c.bias, c.confidence)
            /\ c.score >= 0

\* a second attempt has regenerated: the pool holds a candidate off the grid
\* with a parameter clamped at 1
C25_Witness ==
    /\ Len(attemptHistory) >= 2
    /\ \E i \in 1..Len(candidates) :
          /\ Regenerated(candidates[i])
          /\ \E p \in 1..5 : candidates[i].setup[p] = One

\* C30: a recordAttempt whose feedback keeps no candidate of the pool, and so
\* every recordAttempt on an empty pool, leaves the pool empty, with
\* getBestRecommendations empty and isOptimal false; only reset refills it.
C30_EmptyPoolIsAbsorbing ==
    [][/\ (RecordStep /\ Survivors(candidates, ret'.feedback) = <<>>) =>
              /\ candidates' = <<>>
              /\ \A n \in 0..MaxCount : getBestRecommendations(n)' = <<>>
              /\ ~isOptimal'
       /\ (candidates = <<>> /\ candidates' # <<>>) =>
              (ret'.op = "reset" /\ candidates' = initializeCandidates)]_vars

\* the first attempt filtered the grid without regenerating, the second kept
\* none of its survivors, and a third attempt, whose feedback the grid has
\* candidates for, found the pool empty and left it so
C30_Witness ==
    /\ ret.op = "recordAttempt"
    /\ Len(attemptHistory) = 3
    /\ candidates = <<>>
    /\ getBestRecommendations(3) = <<>>
    /\ ~isOptimal
    /\ \A first \in {Survivors(initializeCandidates, attemptHistory[1].feedback)} :
          /\ Len(first) >= 5
          /\ Survivors(first, attemptHistory[2].feedback) = <<>>
    /\ Survivors(initializeCandidates, attemptHistory[3].feedback) # <<>>

QueryOps ==
    {"getBestRecommendations", "getStats", "predictConfidence", "isOptimal",
     "estimateAttemptsToOptimal"}

\* C24: a step of getBestRecommendations, getStats, predictConfidence,
\* isOptimal or estimateAttemptsToOptimal leaves the pool, content and order,
\* and the attempt history as they were, and predictConfidence answers
\* calculateConfidence(calculateBias(setup)) whatever the pool and history.
C24_QueriesLeaveStateAlone ==
    [][ret'.op \in QueryOps =>
          /\ candidates' = candidates
          /\ attemptHistory' = attemptHistory
          /\ ret'.op = "predictConfidence" =>
                ret'.value = calculateConfidence(calculateBias(ret'.setup).value)]_vars

\* predictConfidence asked for the best grid setup after two attempts have
\* emptied the pool: it still answers 90
C24_Witness ==
    /\ ret.op = "predictConfidence"
    /\ Len(attemptHistory) >= 2
    /\ candidates = <<>>
    /\ ret.setup = MkSetup(One, One, One, (8 * One) \div 10, (6 * One) \div 10)
    /\ ret.value = 90 * PctOne

\* C29 as stated: the level findOptimalSetup gives a metric, classifyFeedback
\* on the bias with the other four metrics at 0.5, is the level
\* classifyBiasMetric gives it, so findOptimalSetup keeps a grid setup for a
\* feedback exactly when narrowCandidates keeps the setup's pool candidate.
C29_ClassifiersAgree ==
    ret.op = "findOptimalSetup" =>
        /\ \A m \in 1..Len(Metrics) :
              ret.setupFeedback[m] = classifyBiasMetric(ret.bias[m])
        /\ ret.matchesFeedback <=>
              feedbackMatches(evaluateCandidate(ret.setup).feedback, ret.feedback)

\* C26: in every state of the SimpleCLI shell, after manual entries, practice
\* sessions with or without adopting the first recommendation, and resets,
\* each parameter of currentSetup lies in [0,1].
C26_CurrentSetupInUnitRange ==
    InUnitRange(ret.currentSetup)

\* a practice session regenerated the pool and the shell adopted its first
\* recommendation, a setup off the grid with a parameter clamped at 1
C26_Witness ==
    /\ ret.op = "runPracticeSession"
    /\ Len(attemptHistory) = 2
    /\ Len(candidates) > 0
    /\ ret.currentSetup = candidates[1].setup
    /\ ~OnGrid(ret.currentSetup)
    /\ \E p \in 1..5 : ret.currentSetup[p] = One

\* C22 as stated: every grid enumeration, the search grid of
\* generateAllCombinations and the initial pool grid, has at most 10^6 points.
C22_AtMostMillionPoints ==
    ret.length <= 1000000

\* C22: the enumeration of generateAllCombinations pushes 21^5 = 4084101
\* points and that of initializeCandidates 6^5 = 7776, never more on the way,
\* and each enumeration terminates.
C22_GridSizesAndTermination ==
    /\ [](/\ ret.op = "generateAllCombinations" =>
                /\ ret.length <= 4084101
                /\ ret.returned => ret.length = 4084101
          /\ ret.op = "initializeCandidates" =>
                /\ ret.length <= 7776
                /\ ret.returned => ret.length = 7776 /\ ret.length = Len(gridSetups))
    /\ <>ret.returned

\* generateAllCombinations has returned more than 10^6 points
C22_Witness ==
    /\ ret.op = "generateAllCombinations"
    /\ ret.returned
    /\ ret.length > 1000000

\* the setups of the search grid that findOptimalSetup may return for a target
Eligible(feedback) ==
    {setup \in DOMAIN searchEvaluated :
        feedback # undefined =>
            \A m \in 1..Len(Metrics) :
                Abs(Ordinal(searchEvaluated[setup].setupFeedback[m]) - Ordinal(feedback[m])) <= 1}

\* C21: findOptimalSetup returns at most 10 setups of the grid, each eligible
\* and none twice, in order of non-increasing confidence, and no eligible
\* setup left out has a higher confidence than a returned one (all eligible
\* setups are returned when fewer than 10 are); without a target every grid
\* point is eligible and exactly 10 are returned, with a target the eligible
\* setups are those whose isolated classification is within one level of the
\* target on each of the 5 metrics.
C21_TopTenEligibleByConfidence ==
    ret.op = "findOptimalSetup" =>
        \A eligible \in {Eligible(ret.feedback)} :
            \A confidences \in {[i \in 1..Len(ret.value) |-> predictConfidence(ret.value[i])]} :
                /\ Len(ret.value) <= 10
                /\ \A i \in 1..Len(ret.value) : ret.value[i] \in eligible
                /\ \A i, j \in 1..Len(ret.value) : i # j => ret.value[i] # ret.value[j]
                /\ \A i \in 1..(Len(ret.value) - 1) : confidences[i] >= confidences[i + 1]
                /\ Len(ret.value) = Min(10, Cardinality(eligible))
                /\ \A setup \in eligible :
                      \/ \E i \in 1..Len(ret.value) : ret.value[i] = setup
                      \/ \A i \in 1..Len(ret.value) :
                            searchEvaluated[setup].confidence <= confidences[i]
                /\ ret.feedback = undefined =>
                      /\ eligible = DOMAIN searchEvaluated
                      /\ Len(ret.value) = 10

\* a target with more than 10 eligible setups, not all of the grid: 10 returned
C21_Witness ==
    /\ ret.op = "findOptimalSetup"
    /\ ret.feedback # undefined
    /\ Len(ret.value) = 10
    /\ \A eligible \in {Eligible(ret.feedback)} :
          /\ Cardinality(eligible) > 10
          /\ eligible # DOMAIN searchEvaluated

\* getBestRecommendations on the pool given
getBestRecommendationsOf(pool, count) ==
    LET top == slice(pool, 0, count)
    IN  [i \in 1..Len(top) |-> top[i].setup]

\* C23 as stated: whatever the enumeration order, the sorted initial pool
\* gives the same getBestRecommendations(n) sequence and findOptimalSetup the
\* same top-10 sequence as in the code's order, ties included.
C23_SameSetupsInEveryOrder ==
    /\ ret.op = "initializeCandidates" =>
          \A n \in 0..MaxCount :
              SubSeq(ret.value, 1, n) = getBestRecommendationsOf(initializeCandidates, n)
    /\ ret.op = "findOptimalSetup" => ret.value = findOptimalSetup(ret.feedback)

\* C23: whatever the enumeration order, the scores of the first n candidates
\* of the sorted initial pool and the confidences of the setups
\* findOptimalSetup returns are the same sequence as in the code's order, and
\* in the code's order the setups are the same; the setups can differ between
\* orders only where candidates tie.
C23_SameRanksInEveryOrder ==
    /\ ret.op = "initializeCandidates" =>
          /\ ret.scores = [i \in 1..Len(ret.scores) |-> initializeCandidates[i].score]
          /\ Len(ret.value) = MaxCount
          /\ \A i \in 1..Len(ret.value) :
                ret.value[i] # initializeCandidates[i].setup =>
                    \E j \in 1..Len(ret.scores) : j # i /\ ret.scores[j] = ret.scores[i]
          /\ ret.order = codeOrder =>
                \A n \in 0..MaxCount :
                    SubSeq(ret.value, 1, n) = getBestRecommendationsOf(initializeCandidates, n)
    /\ ret.op = "findOptimalSetup" =>
          \A reference \in {findOptimalSetup(ret.feedback)} :
              /\ Len(ret.value) = Len(reference)
              /\ \A i \in 1..Len(ret.value) :
                    ret.confidences[i] = searchEvaluated[reference[i]].confidence
              /\ ret.order = codeOrder => ret.value = reference

\* an order other than the code's gave other setups with the same confidences
C23_Witness ==
    /\ ret.op = "findOptimalSetup"
    /\ ret.order # codeOrder
    /\ Len(ret.value) = 10
    /\ ret.value # findOptimalSetup(ret.feedback)
    /\ \E i \in 1..9 : ret.confidences[i] = ret.confidences[i + 1]

====
